---------------------------- MODULE Spec2Model ----------------------------
(***************************************************************************)
(* Model of app.py, the Olist decision dashboard: a Streamlit script that  *)
(* loads five tables (from CSV files, or synthetic ones when a file is     *)
(* absent), cuts a 90-day window, aggregates it by week, and rolls up      *)
(* impact per segment and policy firings per node.                         *)
(*                                                                         *)
(* Conventions of the model                                                *)
(*  - a timestamp is a whole number of days since 2017-01-01 (the first    *)
(*    date of the demo frame), or NaT;                                     *)
(*  - a float is an exact rational [n, d] (d > 0), or NaN = [0, 0]:        *)
(*    rounding of IEEE doubles is not modelled;                            *)
(*  - a table is a sequence of records, one record per row;                *)
(*  - segment names and node names are small integers (pandas sorts the   *)
(*    groups of a groupby by key);                                         *)
(*  - numpy's generator is a seed drawn afresh for each generation.        *)
(***************************************************************************)
EXTENDS Integers, Sequences, FiniteSets, TLC

VARIABLES
  fs,           \* the working directory: file name -> Absent or a table
  cache,        \* st.cache_data's entry for load_data(): NoEntry or a record
  pc,           \* position of the script in the current render
  bodyRuns,     \* how often the body of load_data ran in this process (capped)
  renders,      \* renders finished in this process (capped)
  notices,      \* banners st.warning / st.info put on the page by load_data
  clean, seg, impact, ffd, inc,          \* the five tables of line 113
  end_date, start_90, df90, weekly,      \* lines 116-126
  nsm_value, impact_base, net_gain,      \* lines 136, 147, 148
  open_inc,                              \* lines 176-177
  base_impact, seg_view,                 \* lines 185-188
  last7, node_counts, gr_counts,         \* lines 204-214
  changes,      \* file changes since the last render started (capped)
  firstTables,  \* history: the tables the first successful render received
  prevRun       \* history: inputs and policy tables of the previous process

vars == << fs, cache, pc, bodyRuns, renders, notices, clean, seg, impact, ffd,
           inc, end_date, start_90, df90, weekly, nsm_value, impact_base,
           net_gain, open_inc, base_impact, seg_view, last7, node_counts,
           gr_counts, changes, firstTables, prevRun >>

-----------------------------------------------------------------------------
(* Bounds of the model *)

MaxRenders == 2        \* renders counted per process
MaxFsChanges == 1      \* file changes counted between two renders
NumSeeds == 2          \* seeds the synthetic generators draw from
DemoOrders == 2        \* rows of the synthetic order frame   (5000 in app.py)
DemoLogRows == 2       \* rows of the synthetic policy log    (600 in app.py)
MaxWinOrders == 3      \* rows of an order file, window specification
EdgeDays == 1          \* days tried on either side of the window's edges
MaxWeeklyOrders == 5   \* rows of an order file, weekly specification
MaxImpactRows == 2     \* rows of an impact file
MaxLogRows == 2        \* rows of a policy log file

-----------------------------------------------------------------------------
(* Missing values and exact arithmetic *)

NaT == -2147483647                       \* pandas NaT (the least integer), a missing cell
NA == NaT                                \* a missing integer cell of any other column
NaN == [n |-> 0, d |-> 0]                \* float NaN
IsNaN(x) == x.d = 0

Abs(i) == IF i < 0 THEN -i ELSE i

RECURSIVE GCD(_, _)
GCD(a, b) == IF b = 0 THEN a ELSE GCD(b, a % b)

Rat(n, d) ==
  IF d = 0 THEN NaN
  ELSE LET g == GCD(Abs(n), Abs(d))
           s == IF d < 0 THEN -1 ELSE 1
       IN  [n |-> s * (n \div g), d |-> s * (d \div g)]

RatInt(i) == [n |-> i, d |-> 1]
RatAdd(x, y) == IF IsNaN(x) \/ IsNaN(y) THEN NaN ELSE Rat(x.n * y.d + y.n * x.d, x.d * y.d)
RatSub(x, y) == IF IsNaN(x) \/ IsNaN(y) THEN NaN ELSE Rat(x.n * y.d - y.n * x.d, x.d * y.d)
RatMul(x, y) == IF IsNaN(x) \/ IsNaN(y) THEN NaN ELSE Rat(x.n * y.n, x.d * y.d)
RatDivInt(x, k) == IF IsNaN(x) \/ k = 0 THEN NaN ELSE Rat(x.n, x.d * k)

(* An integer cell as a float: a missing cell is NaN. *)
Num(i) == IF i = NaT THEN NaN ELSE RatInt(i)

-----------------------------------------------------------------------------
(* Sequences as tables *)

RECURSIVE SelectRows(_, _)
SelectRows(t, keep) ==       \* t[mask]: the rows at the indices in keep, in order
  IF t = << >> THEN << >>
  ELSE LET n == Len(t)
           front == SelectRows(SubSeq(t, 1, n - 1), keep)
       IN  IF n \in keep THEN Append(front, t[n]) ELSE front

RECURSIVE SortedSeq(_)
SortedSeq(S) ==              \* the integers of S in ascending order
  IF S = {} THEN << >>
  ELSE LET m == CHOOSE x \in S : \A y \in S : x <= y
       IN  << m >> \o SortedSeq(S \ {m})

RECURSIVE SumRat(_, _)
SumRat(f, idx) ==            \* sum of f[i] over i in idx, skipping NaN (skipna)
  IF idx = {} THEN RatInt(0)
  ELSE LET i == CHOOSE x \in idx : TRUE
           rest == SumRat(f, idx \ {i})
       IN  IF IsNaN(f[i]) THEN rest ELSE RatAdd(rest, f[i])

(* Series.mean(): the mean of the non-missing values, NaN when there is none. *)
MeanRat(f, idx) ==
  LET ok == {i \in idx : ~IsNaN(f[i])}
  IN  RatDivInt(SumRat(f, ok), Cardinality(ok))

(* Series.max() of a timestamp column: NaT is skipped; NaT when nothing is left. *)
MaxTs(t) ==
  LET S == {t[i].ts : i \in DOMAIN t} \ {NaT}
  IN  IF S = {} THEN NaT ELSE CHOOSE x \in S : \A y \in S : y <= x


-----------------------------------------------------------------------------
(* read_csv_safe, lines 22-25 *)

FileNames == {"clean", "seg", "impact", "ffd", "inc"}

(* A file of the working directory: absent, or present with its rows. *)
Absent == [exists |-> FALSE, rows |-> << >>]
File(rows) == [exists |-> TRUE, rows |-> rows]

(* Mutant: the existence test never succeeds. *)
read_csv_safe_never(files, path) == [none |-> TRUE, rows |-> << >>]

(* None when os.path.exists(path) is false, else the frame read. *)
read_csv_safe(files, path) ==
  IF files[path].exists THEN [none |-> FALSE, rows |-> files[path].rows]
  ELSE [none |-> TRUE, rows |-> << >>]
IsNone(t) == t.none

-----------------------------------------------------------------------------
(* The synthetic tables of load_data, lines 38-110 *)

DemoPeriods == 400     \* pd.date_range("2017-01-01", periods=400, freq="D")
EpochWeekday == 6      \* 2017-01-01 is a Sunday: datetime.weekday() = 6
Seeds == 0 .. (NumSeeds - 1)

(* np.random.choice(values, ...): the k-th draw of the stream `salt` under  *)
(* generator seed s, as an index into a list of m values (1-based).        *)
Draw(s, salt, k, m) == ((s * 131 + salt * 53 + k * 97 + s * k * 29) % m) + 1

OnTimeChoices == << 1, 1, 1, 0 >>
ReviewChoices == << 5, 4, 3, 2, 1 >>

DemoCleanFrame(s) ==
  [i \in 1 .. DemoOrders |->
     [order_id |-> i,
      ts       |-> Draw(s, 1, i, DemoPeriods) - 1,
      on_time  |-> OnTimeChoices[Draw(s, 2, i, 4)],
      review   |-> ReviewChoices[Draw(s, 3, i, 5)]]]

DemoSegNames == << 1, 2, 3, 4, 5 >>
DemoSegSize  == << 2300, 1800, 1200, 2600, 900 >>
DemoSegGMV   == << 2300000, 1700000, 1200000, 2500000, 1000000 >>

DemoSegments ==
  [i \in 1 .. 5 |->
     [name |-> DemoSegNames[i], size |-> DemoSegSize[i], gmv |-> DemoSegGMV[i]]]

Scenarios == << "optimistic", "base", "pessimistic" >>   \* امیدی، پایه، بدبینانه
BaseScenario == "base"                                   \* "پایه"
DemoUplift == << Rat(6, 1), Rat(3, 1), Rat(1, 2) >>       \* uplift_gmv_%
DemoCostPerOrder == << Rat(8, 10), Rat(6, 10), Rat(4, 10) >>
DemoTakeRate == Rat(12, 100)

(* Mutant: the cost is added to the platform share instead of subtracted. *)
recalc_cost_added(row) ==
  LET incr == RatMul(Num(row.gmv), RatDivInt(row.uplift, 100))
      plat == RatMul(incr, row.take_rate)
      cost == RatMul(Num(row.orders), row.cost_per_order)
      net  == RatAdd(plat, cost)
  IN  [row EXCEPT !.incr = incr, !.plat = plat, !.cost = cost, !.net = net]

(* recalc, lines 81-86 *)
recalc(row) ==
  LET incr == RatMul(Num(row.gmv), RatDivInt(row.uplift, 100))
      plat == RatMul(incr, row.take_rate)
      cost == RatMul(Num(row.orders), row.cost_per_order)
      net  == RatSub(plat, cost)
  IN  [row EXCEPT !.incr = incr, !.plat = plat, !.cost = cost, !.net = net]

(* lines 66-79: three rows per segment row, in the order of the segment     *)
(* table; the four derived columns start at 0.                              *)
DemoImpactRaw(segs) ==
  [k \in 1 .. (3 * Len(segs)) |->
     LET i == ((k - 1) \div 3) + 1
         j == ((k - 1) % 3) + 1
     IN  [segment |-> segs[i].name, scenario |-> Scenarios[j],
          gmv |-> segs[i].gmv, orders |-> segs[i].size,
          uplift |-> DemoUplift[j], cost_per_order |-> DemoCostPerOrder[j],
          take_rate |-> DemoTakeRate,
          incr |-> RatInt(0), plat |-> RatInt(0), cost |-> RatInt(0),
          net |-> RatInt(0)]]

(* line 87: impact[[four columns]] = impact.apply(recalc, axis=1).  On a    *)
(* frame without rows apply returns a copy of the frame (all its columns),  *)
(* and the assignment of that to four columns raises ValueError.            *)
ApplyRaises(segs) == Len(segs) = 0
DemoImpact(segs) ==
  LET raw == DemoImpactRaw(segs) IN [k \in DOMAIN raw |-> recalc(raw[k])]

DemoNodes == << 1, 2, 3 >>    \* Node1_high_risk, Node2_segment_geo, Node3_stable_hold
DemoLogDays == 6               \* pd.date_range(now - 6 days, now, freq="H")

(* line 93: pd.date_range raises ValueError when start or end is NaT. *)
DateRangeRaises(now) == now = NaT
DemoLogs(s, now) ==
  [i \in 1 .. DemoLogRows |->
     [ts   |-> (now - DemoLogDays) + (Draw(s, 4, i, DemoLogDays + 1) - 1),
      node |-> DemoNodes[Draw(s, 5, i, 3)],
      guardrail_fired |-> Draw(s, 6, i, 2) - 1]]

TsMinus(t, days) == IF t = NaT THEN NaT ELSE t - days

DemoIncidents(now) ==
  << [incident_id |-> 101, opened_at |-> TsMinus(now, 3), status |-> "open"],
     [incident_id |-> 102, opened_at |-> TsMinus(now, 1), status |-> "open"] >>

-----------------------------------------------------------------------------
(* load_data, lines 28-111.  The result says whether the body raised, the   *)
(* banners it put on the page before that, and the five tables.            *)

Warn(file) == [kind |-> "warning", file |-> file]
Info(file) == [kind |-> "info", file |-> file]

MissingCleanNotice(t)  == IF IsNone(t) THEN << Warn("clean") >> ELSE << >>
MissingSegNotice(t)    == IF IsNone(t) THEN << Warn("seg") >> ELSE << >>
MissingImpactNotice(t) == IF IsNone(t) THEN << Warn("impact") >> ELSE << >>
MissingFfdNotice(t)    == IF IsNone(t) THEN << Info("ffd") >> ELSE << >>
MissingIncNotice(t)    == << >>          \* lines 101-110 emit nothing

load_data(files, s) ==
  LET clean0  == read_csv_safe(files, "clean")
      seg0    == read_csv_safe(files, "seg")
      impact0 == read_csv_safe(files, "impact")
      ffd0    == read_csv_safe(files, "ffd")
      inc0    == read_csv_safe(files, "inc")
      clean1  == IF IsNone(clean0) THEN DemoCleanFrame(s) ELSE clean0.rows
      seg1    == IF IsNone(seg0) THEN DemoSegments ELSE seg0.rows
      n3      == MissingCleanNotice(clean0) \o MissingSegNotice(seg0)
                   \o MissingImpactNotice(impact0)
      n4      == n3 \o MissingFfdNotice(ffd0)
      now     == MaxTs(clean1)
      None5   == << >>
  IN  IF IsNone(impact0) /\ ApplyRaises(seg1)
        THEN [raised |-> TRUE, notices |-> n3, clean |-> None5, seg |-> None5,
              impact |-> None5, ffd |-> None5, inc |-> None5]
      ELSE IF IsNone(ffd0) /\ DateRangeRaises(now)
        THEN [raised |-> TRUE, notices |-> n4, clean |-> None5, seg |-> None5,
              impact |-> None5, ffd |-> None5, inc |-> None5]
      ELSE [raised |-> FALSE,
            notices |-> n4 \o MissingIncNotice(inc0),
            clean  |-> clean1,
            seg    |-> seg1,
            impact |-> IF IsNone(impact0) THEN DemoImpact(seg1) ELSE impact0.rows,
            ffd    |-> IF IsNone(ffd0) THEN DemoLogs(s, now) ELSE ffd0.rows,
            inc    |-> IF IsNone(inc0) THEN DemoIncidents(now) ELSE inc0.rows]

-----------------------------------------------------------------------------
(* Time window and weekly aggregation, lines 116-126 *)

WindowDays == 90       \* pd.Timedelta(days=90)
RollingWindow == 4     \* rolling(4, ...)
MinPeriods == 1        \* min_periods=1

(* Mutant: the left bound is exclusive. *)
between_open_left(t, left, right) ==
  /\ t # NaT /\ left # NaT /\ right # NaT
  /\ left < t /\ t <= right

(* Series.between(left, right), inclusive="both"; a comparison with NaT is False. *)
between(t, left, right) ==
  /\ t # NaT /\ left # NaT /\ right # NaT
  /\ left <= t /\ t <= right

Df90(cl, lo, hi) == SelectRows(cl, {i \in DOMAIN cl : between(cl[i].ts, lo, hi)})

(* dt.to_period("W") then start_time: the Monday of the row's week. *)
WeekStart(t) == t - ((t + EpochWeekday) % 7)

RECURSIVE RollState(_, _, _)
RollState(v, i, win) ==      \* observations and their sum in the window ending at row i
  IF i = 0 THEN [nobs |-> 0, sum |-> RatInt(0)]
  ELSE LET p == RollState(v, i - 1, win)
           a == IF IsNaN(v[i]) THEN p
                ELSE [nobs |-> p.nobs + 1, sum |-> RatAdd(p.sum, v[i])]
       IN  IF i > win /\ ~IsNaN(v[i - win])
             THEN [nobs |-> a.nobs - 1, sum |-> RatSub(a.sum, v[i - win])]
             ELSE a

(* Mutant: min_periods left at its default, the window length. *)
RollingMeanFullWindow(v, win, minp) ==
  [i \in DOMAIN v |->
     LET st == RollState(v, i, win)
     IN  IF st.nobs >= win THEN RatDivInt(st.sum, st.nobs) ELSE NaN]

(* Series.rolling(win, min_periods=minp).mean() *)
RollingMean(v, win, minp) ==
  [i \in DOMAIN v |->
     LET st == RollState(v, i, win)
     IN  IF st.nobs >= minp THEN RatDivInt(st.sum, st.nobs) ELSE NaN]

WeeklyTable(d) ==
  LET weeks == SortedSeq({WeekStart(d[i].ts) : i \in DOMAIN d})
      rowsOf(w) == {i \in DOMAIN d : WeekStart(d[i].ts) = w}
      otdOf  == [i \in DOMAIN d |-> Num(d[i].on_time)]
      revOf  == [i \in DOMAIN d |-> Num(d[i].review)]
      agg == [k \in DOMAIN weeks |->
                [week   |-> weeks[k],
                 orders |-> Cardinality({d[i].order_id : i \in rowsOf(weeks[k])} \ {NA}),
                 otd    |-> MeanRat(otdOf, rowsOf(weeks[k])),
                 review |-> MeanRat(revOf, rowsOf(weeks[k]))]]
      roll == RollingMean([k \in DOMAIN agg |-> agg[k].review], RollingWindow, MinPeriods)
  IN  [k \in DOMAIN agg |->
         [week |-> agg[k].week, orders |-> agg[k].orders, otd |-> agg[k].otd,
          review |-> agg[k].review,
          otd_pct |-> RatMul(agg[k].otd, RatInt(100)),
          review_rolling |-> roll[k]]]

-----------------------------------------------------------------------------
(* KPI cards, lines 136-148 *)

NsmValue(d) == Cardinality({d[i].order_id : i \in {j \in DOMAIN d : d[j].on_time = 1}} \ {NA})

ImpactBase(imp) == SelectRows(imp, {i \in DOMAIN imp : imp[i].scenario = BaseScenario})

NetGain(ib) == SumRat([i \in DOMAIN ib |-> ib[i].net], DOMAIN ib)

-----------------------------------------------------------------------------
(* Open incidents, lines 176-177 *)

Lower(st) == IF st = "Open" THEN "open" ELSE st

RECURSIVE SortDesc(_)
SortDesc(t) ==               \* sort_values("opened_at", ascending=False): NaT last
  IF t = << >> THEN << >>
  ELSE LET known == {i \in DOMAIN t : t[i].opened_at # NaT}
           pool  == IF known = {} THEN DOMAIN t ELSE known
           m == CHOOSE i \in pool :
                  \A j \in pool : \/ t[j].opened_at < t[i].opened_at
                                  \/ (t[j].opened_at = t[i].opened_at /\ i <= j)
       IN  << t[m] >> \o SortDesc(SelectRows(t, DOMAIN t \ {m}))

OpenIncidents(t) == SortDesc(SelectRows(t, {i \in DOMAIN t : Lower(t[i].status) = "open"}))

-----------------------------------------------------------------------------
(* Segment table, lines 185-188 *)

(* groupby("segment", as_index=False).sum(): one row per key, keys ascending, *)
(* rows whose key is missing dropped; the sum skips NaN.                     *)
BaseImpact(ib) ==
  LET keys == SortedSeq({ib[i].segment : i \in DOMAIN ib} \ {NA})
      net  == [i \in DOMAIN ib |-> ib[i].net]
  IN  [k \in DOMAIN keys |->
         [segment |-> keys[k],
          effect  |-> SumRat(net, {i \in DOMAIN ib : ib[i].segment = keys[k]})]]

(* Mutant: a segment without a matching row gets 0 (a fillna(0) after the join). *)
RECURSIVE MergeLeftFillZero(_, _)
MergeLeftFillZero(sg, bi) ==
  IF sg = << >> THEN << >>
  ELSE LET n == Len(sg)
           row == sg[n]
           hits == SelectRows(bi, {k \in DOMAIN bi : bi[k].segment = row.name})
           out == IF hits = << >>
                    THEN << [name |-> row.name, size |-> row.size, effect |-> RatInt(0)] >>
                    ELSE [k \in DOMAIN hits |->
                            [name |-> row.name, size |-> row.size,
                             effect |-> hits[k].effect]]
       IN  MergeLeftFillZero(SubSeq(sg, 1, n - 1), bi) \o out

(* seg.merge(base_impact, on="segment", how="left"): every left row, in order, *)
(* once per matching right row, or once with a missing value when none matches. *)
RECURSIVE MergeLeft(_, _)
MergeLeft(sg, bi) ==
  IF sg = << >> THEN << >>
  ELSE LET n == Len(sg)
           row == sg[n]
           hits == SelectRows(bi, {k \in DOMAIN bi : bi[k].segment = row.name})
           out == IF hits = << >>
                    THEN << [name |-> row.name, size |-> row.size, effect |-> NaN] >>
                    ELSE [k \in DOMAIN hits |->
                            [name |-> row.name, size |-> row.size,
                             effect |-> hits[k].effect]]
       IN  MergeLeft(SubSeq(sg, 1, n - 1), bi) \o out

-----------------------------------------------------------------------------
(* Policy status, lines 204-214 *)

PolicyDays == 7        \* pd.Timedelta(days=7)

(* ffd[ffd["timestamp"] >= ffd["timestamp"].max() - 7 days] *)
Last7(log) ==
  LET hi == MaxTs(log)
  IN  SelectRows(log, {i \in DOMAIN log :
                         log[i].ts # NaT /\ hi # NaT /\ log[i].ts >= hi - PolicyDays})

(* Mutant: nunique() instead of count(): distinct timestamps per node. *)
NodeCountsDistinct(l7) ==
  LET keys == SortedSeq({l7[i].node : i \in DOMAIN l7} \ {NA})
  IN  [k \in DOMAIN keys |->
         [node  |-> keys[k],
          fires |-> Cardinality({l7[i].ts : i \in {j \in DOMAIN l7 : l7[j].node = keys[k]}}
                                  \ {NaT})]]

(* groupby("node")["timestamp"].count(): non-missing timestamps per node *)
NodeCounts(l7) ==
  LET keys == SortedSeq({l7[i].node : i \in DOMAIN l7} \ {NA})
  IN  [k \in DOMAIN keys |->
         [node  |-> keys[k],
          fires |-> Cardinality({i \in DOMAIN l7 : l7[i].node = keys[k] /\ l7[i].ts # NaT})]]

GuardrailLabel(flag) == IF flag = 0 THEN "No" ELSE IF flag = 1 THEN "Yes" ELSE "NaN"

GrCounts(l7) ==
  LET keys == SortedSeq({l7[i].guardrail_fired : i \in DOMAIN l7} \ {NA})
  IN  [k \in DOMAIN keys |->
         [guardrail_fired |-> keys[k],
          count |-> Cardinality({i \in DOMAIN l7 :
                                   l7[i].guardrail_fired = keys[k] /\ l7[i].ts # NaT}),
          label |-> GuardrailLabel(keys[k])]]

-----------------------------------------------------------------------------
(* The script as a state machine: one action per section of app.py *)

NoEntry == [filled |-> FALSE, notices |-> << >>, clean |-> << >>, seg |-> << >>,
            impact |-> << >>, ffd |-> << >>, inc |-> << >>]
NoTables == [set |-> FALSE, clean |-> << >>, seg |-> << >>, impact |-> << >>,
             ffd |-> << >>, inc |-> << >>]
NoRun == [set |-> FALSE, files |-> [f \in FileNames |-> Absent], ffd |-> << >>,
          end_date |-> NaT, last7 |-> << >>, node_counts |-> << >>,
          gr_counts |-> << >>]

derived == << end_date, start_90, df90, weekly, nsm_value, impact_base, net_gain,
              open_inc, base_impact, seg_view, last7, node_counts, gr_counts >>

(* The names the script has not bound yet. *)
Unbound ==
  /\ end_date = NaT /\ start_90 = NaT /\ df90 = << >> /\ weekly = << >>
  /\ nsm_value = 0 /\ impact_base = << >> /\ net_gain = RatInt(0)
  /\ open_inc = << >> /\ base_impact = << >> /\ seg_view = << >>
  /\ last7 = << >> /\ node_counts = << >> /\ gr_counts = << >>

Rebind ==
  /\ end_date' = NaT /\ start_90' = NaT /\ df90' = << >> /\ weekly' = << >>
  /\ nsm_value' = 0 /\ impact_base' = << >> /\ net_gain' = RatInt(0)
  /\ open_inc' = << >> /\ base_impact' = << >> /\ seg_view' = << >>
  /\ last7' = << >> /\ node_counts' = << >> /\ gr_counts' = << >>

InitProcess ==
  /\ cache = NoEntry /\ pc = "ready" /\ bodyRuns = 0 /\ renders = 0
  /\ notices = << >>
  /\ clean = << >> /\ seg = << >> /\ impact = << >> /\ ffd = << >> /\ inc = << >>
  /\ Unbound
  /\ changes = 0 /\ firstTables = NoTables /\ prevRun = NoRun

Resting == pc \in {"ready", "done", "crashed"}

(* @st.cache_data, line 27: the body runs when the cache holds no entry; a   *)
(* returned value is stored and the banners of that run are replayed on a   *)
(* hit; a call that raises stores nothing.                                   *)
CachedCall(entry, files, s) ==
  IF entry.filled
    THEN [ran |-> FALSE, raised |-> FALSE, entry |-> entry]
    ELSE LET r == load_data(files, s)
         IN  [ran |-> TRUE, raised |-> r.raised,
              entry |-> [filled |-> ~r.raised, notices |-> r.notices,
                         clean |-> r.clean, seg |-> r.seg, impact |-> r.impact,
                         ffd |-> r.ffd, inc |-> r.inc]]

(* A render starts: lines 19-113.  An exception ends the render. *)
CallLoadData ==
  /\ Resting
  /\ renders < MaxRenders
  /\ \E s \in Seeds :
       LET c == CachedCall(cache, fs, s)
       IN  /\ cache' = IF c.raised THEN cache ELSE c.entry
           /\ bodyRuns' = IF c.ran THEN bodyRuns + 1 ELSE bodyRuns
           /\ notices' = c.entry.notices
           /\ clean' = c.entry.clean /\ seg' = c.entry.seg
           /\ impact' = c.entry.impact /\ ffd' = c.entry.ffd /\ inc' = c.entry.inc
           /\ pc' = IF c.raised THEN "crashed" ELSE "window"
           /\ firstTables' =
                IF firstTables.set \/ c.raised THEN firstTables
                ELSE [set |-> TRUE, clean |-> c.entry.clean, seg |-> c.entry.seg,
                      impact |-> c.entry.impact, ffd |-> c.entry.ffd,
                      inc |-> c.entry.inc]
  /\ renders' = renders + 1
  /\ changes' = 0
  /\ Rebind
  /\ UNCHANGED << fs, prevRun >>

(* lines 116-126 *)
TimeWindow ==
  /\ pc = "window"
  /\ end_date' = MaxTs(clean)
  /\ start_90' = TsMinus(MaxTs(clean), WindowDays)
  /\ df90' = Df90(clean, TsMinus(MaxTs(clean), WindowDays), MaxTs(clean))
  /\ weekly' = WeeklyTable(Df90(clean, TsMinus(MaxTs(clean), WindowDays), MaxTs(clean)))
  /\ pc' = "kpi"
  /\ UNCHANGED << fs, cache, bodyRuns, renders, notices, clean, seg, impact, ffd, inc,
                  nsm_value, impact_base, net_gain, open_inc, base_impact, seg_view,
                  last7, node_counts, gr_counts, changes, firstTables, prevRun >>

(* lines 132-149 *)
KpiCards ==
  /\ pc = "kpi"
  /\ nsm_value' = NsmValue(df90)
  /\ impact_base' = ImpactBase(impact)
  /\ net_gain' = NetGain(ImpactBase(impact))
  /\ pc' = "panel"
  /\ UNCHANGED << fs, cache, bodyRuns, renders, notices, clean, seg, impact, ffd, inc,
                  end_date, start_90, df90, weekly, open_inc, base_impact, seg_view,
                  last7, node_counts, gr_counts, changes, firstTables, prevRun >>

(* lines 154-178 *)
InstabilityPanel ==
  /\ pc = "panel"
  /\ open_inc' = OpenIncidents(inc)
  /\ pc' = "segments"
  /\ UNCHANGED << fs, cache, bodyRuns, renders, notices, clean, seg, impact, ffd, inc,
                  end_date, start_90, df90, weekly, nsm_value, impact_base, net_gain,
                  base_impact, seg_view, last7, node_counts, gr_counts, changes,
                  firstTables, prevRun >>

(* lines 183-198 *)
SegmentsTable ==
  /\ pc = "segments"
  /\ base_impact' = BaseImpact(impact_base)
  /\ seg_view' = MergeLeft(seg, BaseImpact(impact_base))
  /\ pc' = "policy"
  /\ UNCHANGED << fs, cache, bodyRuns, renders, notices, clean, seg, impact, ffd, inc,
                  end_date, start_90, df90, weekly, nsm_value, impact_base, net_gain,
                  open_inc, last7, node_counts, gr_counts, changes, firstTables,
                  prevRun >>

(* Mutant: the 7 days end at the order table's last purchase, not the log's. *)
PolicyStatusOrderClock ==
  /\ pc = "policy"
  /\ LET l7 == SelectRows(ffd, {i \in DOMAIN ffd :
                     ffd[i].ts # NaT /\ end_date # NaT /\ ffd[i].ts >= end_date - PolicyDays})
     IN  /\ last7' = l7
         /\ node_counts' = NodeCounts(l7)
         /\ gr_counts' = GrCounts(l7)
  /\ pc' = "done"
  /\ UNCHANGED << fs, cache, bodyRuns, renders, notices, clean, seg, impact, ffd, inc,
                  end_date, start_90, df90, weekly, nsm_value, impact_base, net_gain,
                  open_inc, base_impact, seg_view, changes, firstTables, prevRun >>

(* lines 203-217 *)
PolicyStatus ==
  /\ pc = "policy"
  /\ last7' = Last7(ffd)
  /\ node_counts' = NodeCounts(Last7(ffd))
  /\ gr_counts' = GrCounts(Last7(ffd))
  /\ pc' = "done"
  /\ UNCHANGED << fs, cache, bodyRuns, renders, notices, clean, seg, impact, ffd, inc,
                  end_date, start_90, df90, weekly, nsm_value, impact_base, net_gain,
                  open_inc, base_impact, seg_view, changes, firstTables, prevRun >>

Render ==
  \/ CallLoadData
  \/ TimeWindow
  \/ KpiCards
  \/ InstabilityPanel
  \/ SegmentsTable
  \/ PolicyStatus

-----------------------------------------------------------------------------
(* The environment of the default specification: files come, go and change  *)
(* between renders, and the process restarts.                               *)

CleanRows ==
  << [order_id |-> 1, ts |-> 200, on_time |-> 1, review |-> 5],
     [order_id |-> 2, ts |-> 110, on_time |-> 0, review |-> NA],
     [order_id |-> 3, ts |-> 109, on_time |-> 1, review |-> 3] >>
SegRows ==
  << [name |-> 1, size |-> 100, gmv |-> 50000],
     [name |-> 7, size |-> 40, gmv |-> 9000] >>
ImpactRows ==
  << [segment |-> 1, scenario |-> "optimistic", gmv |-> 50000, orders |-> 100,
      uplift |-> Rat(6, 1), cost_per_order |-> Rat(8, 10), take_rate |-> Rat(12, 100),
      incr |-> Rat(3000, 1), plat |-> Rat(360, 1), cost |-> Rat(80, 1),
      net |-> Rat(280, 1)],
     [segment |-> 1, scenario |-> "base", gmv |-> 50000, orders |-> 100,
      uplift |-> Rat(3, 1), cost_per_order |-> Rat(6, 10), take_rate |-> Rat(12, 100),
      incr |-> Rat(1500, 1), plat |-> Rat(180, 1), cost |-> Rat(60, 1),
      net |-> Rat(120, 1)] >>
FfdRows ==
  << [ts |-> 50, node |-> 1, guardrail_fired |-> 0],
     [ts |-> 44, node |-> 2, guardrail_fired |-> 1],
     [ts |-> 42, node |-> 1, guardrail_fired |-> 1] >>
IncRows ==
  << [incident_id |-> 7, opened_at |-> 190, status |-> "Open"],
     [incident_id |-> 8, opened_at |-> 195, status |-> "closed"] >>

(* What a file of the directory may hold: nothing (absent), a header line   *)
(* only (no rows), or rows.                                                  *)
FileChoices ==
  [f \in FileNames |->
     CASE f = "clean"  -> {Absent, File(<< >>), File(CleanRows)}
       [] f = "seg"    -> {Absent, File(<< >>), File(SegRows)}
       [] f = "impact" -> {Absent, File(ImpactRows)}
       [] f = "ffd"    -> {Absent, File(FfdRows)}
       [] f = "inc"    -> {Absent, File(IncRows)}]

FsChange ==
  /\ Resting
  /\ changes < MaxFsChanges
  /\ \E f \in FileNames : \E v \in FileChoices[f] :
       /\ v # fs[f]
       /\ fs' = [fs EXCEPT ![f] = v]
  /\ changes' = changes + 1
  /\ UNCHANGED << cache, pc, bodyRuns, renders, notices, clean, seg, impact, ffd, inc,
                  derived, firstTables, prevRun >>

(* The server process is restarted: the cache is empty again. *)
Restart ==
  /\ pc \in {"done", "crashed"}
  /\ cache' = NoEntry /\ pc' = "ready" /\ bodyRuns' = 0 /\ renders' = 0
  /\ notices' = << >>
  /\ clean' = << >> /\ seg' = << >> /\ impact' = << >> /\ ffd' = << >> /\ inc' = << >>
  /\ Rebind
  /\ changes' = 0 /\ firstTables' = NoTables
  /\ UNCHANGED << fs, prevRun >>

Init ==
  /\ fs \in [FileNames -> UNION {FileChoices[f] : f \in FileNames}]
  /\ \A f \in FileNames : fs[f] \in FileChoices[f]
  /\ InitProcess

Next == Render \/ FsChange \/ Restart

Spec == Init /\ [][Next]_vars

-----------------------------------------------------------------------------
(* Specifications that run the script over families of input files.  The    *)
(* files do not change while the script runs.                               *)

RECURSIVE SeqsUpTo(_, _)
SeqsUpTo(S, n) ==            \* the sequences over S of length at most n
  IF n = 0 THEN {<< >>}
  ELSE LET shorter == SeqsUpTo(S, n - 1)
       IN  shorter \cup {Append(q, x) : q \in {r \in shorter : Len(r) = n - 1}, x \in S}

Directory(c, sg, im, fd, ic) ==
  [f \in FileNames |->
     CASE f = "clean"  -> c
       [] f = "seg"    -> sg
       [] f = "impact" -> im
       [] f = "ffd"    -> fd
       [] f = "inc"    -> ic]

NextScript == Render

(* Order files whose purchase dates lie around both edges of the window. *)
WinDays == (0 .. EdgeDays) \cup ((WindowDays - EdgeDays) .. (WindowDays + EdgeDays))
WinOrder(t) == [order_id |-> 1, ts |-> t, on_time |-> 1, review |-> 4]
WinFiles == {File(q) : q \in SeqsUpTo({WinOrder(t) : t \in WinDays \cup {NaT}}, MaxWinOrders)}

InitWindow ==
  /\ fs \in {Directory(c, File(SegRows), File(ImpactRows), File(FfdRows), File(IncRows)) :
               c \in WinFiles}
  /\ InitProcess

SpecWindow == InitWindow /\ [][NextScript]_vars

(* Order files of orders in consecutive weeks (the second one also in the   *)
(* week of the first), each with a review score or none.                    *)
FirstMonday == WeekStart(14)    \* a Monday
RECURSIVE WeeklyOrders(_)
WeeklyOrders(n) ==           \* the files of exactly n orders
  IF n = 0 THEN {<< >>}
  ELSE {Append(q, [order_id |-> n,
                   ts |-> IF q = << >> THEN FirstMonday ELSE q[Len(q)].ts + step,
                   on_time |-> 1, review |-> r]) :
          q \in WeeklyOrders(n - 1), step \in (IF n = 2 THEN {1, 7} ELSE {7}),
          r \in {NA, 1, 5}}
WeeklyFiles == {File(q) : q \in UNION {WeeklyOrders(n) : n \in 0 .. MaxWeeklyOrders}}

InitWeekly ==
  /\ fs \in {Directory(c, File(SegRows), File(ImpactRows), File(FfdRows), File(IncRows)) :
               c \in WeeklyFiles}
  /\ InitProcess

SpecWeekly == InitWeekly /\ [][NextScript]_vars

(* Segment files and impact files over two segment names. *)
SegRow(nm) == [name |-> nm, size |-> 100 * nm, gmv |-> 50000 * nm]
SegFiles == {File(q) : q \in SeqsUpTo({SegRow(1), SegRow(2)}, 2)}
ImpactRow(nm, sc, net) ==
  [segment |-> nm, scenario |-> sc, gmv |-> 50000 * nm, orders |-> 100 * nm,
   uplift |-> Rat(3, 1), cost_per_order |-> Rat(6, 10), take_rate |-> Rat(12, 100),
   incr |-> Rat(1500 * nm, 1), plat |-> Rat(180 * nm, 1), cost |-> Rat(60 * nm, 1),
   net |-> net]
ImpactNets(nm) == {NaN, RatInt(0), RatInt(120 * nm), RatInt(-120)}
ImpactRowChoices ==
  UNION {{ImpactRow(nm, sc, net) : sc \in {"base", "pessimistic"}, net \in ImpactNets(nm)} :
           nm \in {1, 2}}
ImpactFiles == {File(q) : q \in SeqsUpTo(ImpactRowChoices, MaxImpactRows)}

InitImpact ==
  /\ fs \in {Directory(File(CleanRows), sg, im, File(FfdRows), File(IncRows)) :
               sg \in SegFiles \cup {Absent}, im \in ImpactFiles \cup {Absent}}
  /\ InitProcess

SpecImpact == InitImpact /\ [][NextScript]_vars

(* Policy log files around the edge of the 7-day window. *)
LogDays == {0, PolicyDays, PolicyDays + 1}
LogFiles ==
  {File(q) : q \in SeqsUpTo([ts : LogDays \cup {NaT}, node : {1, 2, NA},
                             guardrail_fired : {0, 1}], MaxLogRows)}

InitPolicy ==
  /\ fs \in {Directory(File(CleanRows), File(SegRows), File(ImpactRows), fd, File(IncRows)) :
               fd \in LogFiles}
  /\ InitProcess

SpecPolicy == InitPolicy /\ [][NextScript]_vars

(* Two runs of the dashboard, one after the other, against directories that *)
(* differ only in the order file.                                           *)
LaterCleanRows ==
  << [order_id |-> 1, ts |-> 300, on_time |-> 1, review |-> 2],
     [order_id |-> 2, ts |-> 120, on_time |-> 1, review |-> 4] >>
EarlyCleanRows ==
  << [order_id |-> 1, ts |-> 46, on_time |-> 0, review |-> 1] >>
TwoRunOrderFiles == {File(CleanRows), File(LaterCleanRows), File(EarlyCleanRows)}
WideFfdRows ==
  << [ts |-> 60, node |-> 3, guardrail_fired |-> 1],
     [ts |-> 53, node |-> 1, guardrail_fired |-> 0],
     [ts |-> 52, node |-> 1, guardrail_fired |-> 0],
     [ts |-> 45, node |-> 2, guardrail_fired |-> 1] >>
TwoRunLogFiles == {Absent, File(FfdRows), File(WideFfdRows)}

SecondRun ==
  /\ pc = "done"
  /\ ~prevRun.set
  /\ \E c \in TwoRunOrderFiles :
       /\ c # fs["clean"]
       /\ fs' = [fs EXCEPT !["clean"] = c]
  /\ prevRun' = [set |-> TRUE, files |-> fs, ffd |-> ffd, end_date |-> end_date,
                 last7 |-> last7, node_counts |-> node_counts,
                 gr_counts |-> gr_counts]
  /\ cache' = NoEntry /\ pc' = "ready" /\ bodyRuns' = 0 /\ renders' = 0
  /\ notices' = << >>
  /\ clean' = << >> /\ seg' = << >> /\ impact' = << >> /\ ffd' = << >> /\ inc' = << >>
  /\ Rebind
  /\ changes' = 0 /\ firstTables' = NoTables

InitTwoRun ==
  /\ fs \in {Directory(c, Absent, Absent, fd, Absent) :
               c \in TwoRunOrderFiles, fd \in TwoRunLogFiles}
  /\ InitProcess

NextTwoRun == Render \/ SecondRun

SpecTwoRun == InitTwoRun /\ [][NextTwoRun]_vars

-----------------------------------------------------------------------------
(* Properties *)

Loaded == pc \in {"window", "kpi", "panel", "segments", "policy", "done"}
Windowed == pc \in {"kpi", "panel", "segments", "policy", "done"}
Count(t, r) == Cardinality({i \in DOMAIN t : t[i] = r})
Min(a, b) == IF a < b THEN a ELSE b
Noticed(f) == \E i \in DOMAIN notices : notices[i].file = f

(* C1: whichever of the five files are absent, load_data returns and the    *)
(* script runs to its end: no render ends in an exception.                  *)
C1_NeverCrashes == pc # "crashed"

(* C2: when the body of load_data has run (the first render of a process)   *)
(* and returned, the page shows a notice naming each file that was absent.  *)
C2_NoticePerMissingFile ==
  (pc = "window" /\ renders = 1) =>
     \A f \in FileNames : ~fs[f].exists => Noticed(f)

(* C3 as stated: whenever load_data is called with all five files present,  *)
(* it shows no banner and returns exactly the tables read from the files.   *)
C3_AllPresentAnyCall ==
  (pc = "window" /\ \A f \in FileNames : fs[f].exists) =>
     /\ notices = << >>
     /\ clean = fs["clean"].rows /\ seg = fs["seg"].rows
     /\ impact = fs["impact"].rows /\ ffd = fs["ffd"].rows /\ inc = fs["inc"].rows

(* C3 amended: when the body of load_data runs (the first call of a         *)
(* process) with all five files present, it shows no banner and returns     *)
(* exactly the tables read from the files.                                  *)
C3_AllPresentNoBanner ==
  (pc = "window" /\ renders = 1 /\ \A f \in FileNames : fs[f].exists) =>
     /\ notices = << >>
     /\ clean = fs["clean"].rows /\ seg = fs["seg"].rows
     /\ impact = fs["impact"].rows /\ ffd = fs["ffd"].rows /\ inc = fs["inc"].rows

C3_Witness ==
  /\ pc = "window" /\ renders = 1 /\ \A f \in FileNames : fs[f].exists
  /\ clean # << >> /\ seg # << >> /\ impact # << >> /\ ffd # << >> /\ inc # << >>

(* C9: in one process the body of load_data runs at most once, and every    *)
(* render receives the tables the first render received.                    *)
C9_BodyRunsOnce ==
  /\ bodyRuns <= 1
  /\ (Loaded /\ firstTables.set) =>
        /\ clean = firstTables.clean /\ seg = firstTables.seg
        /\ impact = firstTables.impact /\ ffd = firstTables.ffd
        /\ inc = firstTables.inc

(* C4: an order is in df90 exactly when its purchase timestamp t satisfies  *)
(* max - 90 days <= t <= max, max being the greatest purchase timestamp of  *)
(* the table; every such row is kept as often as it occurs.                 *)
IsMaxTimestamp(m) ==
  /\ m # NaT
  /\ \E i \in DOMAIN clean : clean[i].ts = m
  /\ \A i \in DOMAIN clean : clean[i].ts = NaT \/ clean[i].ts <= m

C4_WindowInclusive ==
  Windowed =>
     /\ \A i \in DOMAIN df90 : \E j \in DOMAIN clean : clean[j] = df90[i]
     /\ \A j \in DOMAIN clean :
          LET t == clean[j].ts
              inWindow == \E m \in {clean[k].ts : k \in DOMAIN clean} :
                             /\ IsMaxTimestamp(m)
                             /\ t # NaT /\ m - WindowDays <= t /\ t <= m
          IN  Count(df90, clean[j]) = IF inWindow THEN Count(clean, clean[j]) ELSE 0

C4_Witness ==
  /\ Windowed /\ end_date = WindowDays + 1
  /\ \E j \in DOMAIN clean : clean[j].ts = 0
  /\ \E j \in DOMAIN clean : clean[j].ts = 1
  /\ Len(df90) = 2

(* C7 as stated: the rolling value of weekly row i is the mean of the       *)
(* review means of the last min(4, i) rows (rows counted from 1), and is    *)
(* never missing.                                                           *)
RECURSIVE PlainSum(_, _, _)
PlainSum(v, lo, hi) == IF hi < lo THEN RatInt(0) ELSE RatAdd(PlainSum(v, lo, hi - 1), v[hi])

C7_RollingAlwaysDefined ==
  Windowed =>
     \A i \in DOMAIN weekly :
        LET k == Min(RollingWindow, i)
            v == [j \in DOMAIN weekly |-> weekly[j].review]
        IN  /\ ~IsNaN(weekly[i].review_rolling)
            /\ weekly[i].review_rolling = RatDivInt(PlainSum(v, i - k + 1, i), k)

(* C7 amended: the rolling value of weekly row i is the mean of those       *)
(* review means of the last min(4, i) rows that are not missing, and is     *)
(* missing exactly when all of them are.                                    *)
C7_RollingOverPresent ==
  Windowed =>
     \A i \in DOMAIN weekly :
        LET k == Min(RollingWindow, i)
            present == {j \in (i - k + 1) .. i : ~IsNaN(weekly[j].review)}
            n == Cardinality(present)
        IN  IF present = {} THEN IsNaN(weekly[i].review_rolling)
            ELSE /\ ~IsNaN(weekly[i].review_rolling)
                 /\ RatMul(weekly[i].review_rolling, RatInt(n))
                      = PlainSum([j \in 1 .. n |->
                                    weekly[SortedSeq(present)[j]].review], 1, n)

C7_Witness ==
  /\ Windowed /\ Len(weekly) >= RollingWindow + 1
  /\ IsNaN(weekly[1].review_rolling)
  /\ IsNaN(weekly[3].review) /\ ~IsNaN(weekly[3].review_rolling)
  /\ ~IsNaN(weekly[1 + RollingWindow].review_rolling)
  /\ weekly[1 + RollingWindow].review_rolling # weekly[RollingWindow].review_rolling

(* The formula of the spec, section 4.4, for one impact row. *)
FormulaNet(row) ==
  RatSub(RatMul(Rat(row.gmv * row.uplift.n, row.uplift.d * 100), row.take_rate),
         RatMul(RatInt(row.orders), row.cost_per_order))

IsBaseRowOf(j, nm) == impact[j].scenario = BaseScenario /\ impact[j].segment = nm
HasBaseRow(nm) == \E j \in DOMAIN impact : IsBaseRowOf(j, nm)

(* Sums over the base rows of segment nm, a row that does not count adding 0. *)
FormulaSumOf(nm) ==
  PlainSum([j \in DOMAIN impact |->
              IF IsBaseRowOf(j, nm) THEN FormulaNet(impact[j]) ELSE RatInt(0)],
           1, Len(impact))
NetColumnSumOf(nm) ==
  PlainSum([j \in DOMAIN impact |->
              IF IsBaseRowOf(j, nm) /\ ~IsNaN(impact[j].net) THEN impact[j].net
              ELSE RatInt(0)],
           1, Len(impact))
FormulaSumAll ==
  PlainSum([j \in DOMAIN impact |->
              IF impact[j].scenario = BaseScenario THEN FormulaNet(impact[j])
              ELSE RatInt(0)],
           1, Len(impact))
NetColumnSumAll ==
  PlainSum([j \in DOMAIN impact |->
              IF impact[j].scenario = BaseScenario /\ ~IsNaN(impact[j].net)
                THEN impact[j].net ELSE RatInt(0)],
           1, Len(impact))

(* C5 as stated: for the impact table in use, read or synthesized, the      *)
(* value shown for a segment, and the headline net gain, are the sums of    *)
(* GMV x uplift% / 100 x take rate - orders x cost per order over the base  *)
(* rows.                                                                    *)
C5_FormulaForAnyTable ==
  pc = "done" =>
     /\ net_gain = FormulaSumAll
     /\ \A i \in DOMAIN seg_view :
          HasBaseRow(seg_view[i].name) => seg_view[i].effect = FormulaSumOf(seg_view[i].name)

(* C5 amended: the value shown for a segment, and the headline net gain,    *)
(* are the sums of the net-effect column (missing values skipped) over the  *)
(* base rows only; when the impact table is synthesized these sums are the  *)
(* sums of the formula.                                                     *)
C5_NetColumnSum ==
  pc = "done" =>
     /\ net_gain = NetColumnSumAll
     /\ \A i \in DOMAIN seg_view :
          HasBaseRow(seg_view[i].name) => seg_view[i].effect = NetColumnSumOf(seg_view[i].name)
     /\ ~fs["impact"].exists =>
          /\ net_gain = FormulaSumAll
          /\ \A i \in DOMAIN seg_view :
               HasBaseRow(seg_view[i].name) =>
                  seg_view[i].effect = FormulaSumOf(seg_view[i].name)

C5_Witness ==
  /\ pc = "done" /\ ~fs["impact"].exists /\ ~fs["seg"].exists
  /\ seg_view[1].effect = RatInt(6900)
  /\ net_gain = RatInt(26040)

(* C6: every row of the segment table appears in the segment view, in       *)
(* order; a segment without a base-scenario impact row shows a missing      *)
(* value, one with such rows shows their sum, and so 0 only when that sum   *)
(* is 0.                                                                    *)
C6_LeftJoinKeepsMissing ==
  pc = "done" =>
     /\ Len(seg_view) = Len(seg)
     /\ \A i \in DOMAIN seg_view :
          /\ seg_view[i].name = seg[i].name
          /\ IsNaN(seg_view[i].effect) <=> ~HasBaseRow(seg[i].name)
          /\ seg_view[i].effect = RatInt(0) =>
               (HasBaseRow(seg[i].name) /\ NetColumnSumOf(seg[i].name) = RatInt(0))

C6_Witness ==
  /\ pc = "done" /\ Len(seg_view) = 2
  /\ IsNaN(seg_view[2].effect)
  /\ seg_view[1].effect = RatInt(0)
  /\ \E j \in DOMAIN impact : IsBaseRowOf(j, seg[1].name) /\ impact[j].net = RatInt(120)

(* The 7-day window of the policy log, stated from the log alone. *)
IsLogMax(m) ==
  /\ m # NaT
  /\ \E i \in DOMAIN ffd : ffd[i].ts = m
  /\ \A i \in DOMAIN ffd : ffd[i].ts = NaT \/ ffd[i].ts <= m
InLogWindow(i) ==
  /\ ffd[i].ts # NaT
  /\ \E m \in {ffd[k].ts : k \in DOMAIN ffd} : IsLogMax(m) /\ ffd[i].ts >= m - PolicyDays
WindowEntries == {i \in DOMAIN ffd : InLogWindow(i)}

(* C8: the fires-by-node table has exactly one row per node of the window's *)
(* entries, with the number of those entries; the guardrail table has       *)
(* exactly one row per flag value of the window, labelled Yes for 1 and No  *)
(* for 0, with the number of entries of that flag.                          *)
C8_OneRowPerNodeAndFlag ==
  pc = "done" =>
     LET nodes == {ffd[i].node : i \in WindowEntries} \ {NA}
         flags == {ffd[i].guardrail_fired : i \in WindowEntries}
     IN  /\ {node_counts[k].node : k \in DOMAIN node_counts} = nodes
         /\ Len(node_counts) = Cardinality(nodes)
         /\ \A k \in DOMAIN node_counts :
              node_counts[k].fires =
                 Cardinality({i \in WindowEntries : ffd[i].node = node_counts[k].node})
         /\ {gr_counts[k].guardrail_fired : k \in DOMAIN gr_counts} = flags
         /\ Len(gr_counts) = Cardinality(flags)
         /\ \A k \in DOMAIN gr_counts :
              /\ gr_counts[k].count =
                   Cardinality({i \in WindowEntries :
                                  ffd[i].guardrail_fired = gr_counts[k].guardrail_fired})
              /\ gr_counts[k].label =
                   IF gr_counts[k].guardrail_fired = 1 THEN "Yes" ELSE "No"

C8_Witness ==
  /\ pc = "done" /\ Len(ffd) >= 2
  /\ \A i \in DOMAIN ffd : ffd[i].node = 1 /\ ffd[i].guardrail_fired = 1 /\ ffd[i].ts # NaT
  /\ \E i \in DOMAIN ffd : \E j \in DOMAIN ffd : ffd[i].ts = ffd[j].ts + PolicyDays
  /\ node_counts = << [node |-> 1, fires |-> Len(ffd)] >>
  /\ gr_counts = << [guardrail_fired |-> 1, count |-> Len(ffd), label |-> "Yes"] >>

OnlyOrderFileDiffers ==
  /\ prevRun.set
  /\ \A f \in FileNames \ {"clean"} : fs[f] = prevRun.files[f]
  /\ fs["clean"] # prevRun.files["clean"]

WindowIsLogs7Days ==
  \A j \in DOMAIN ffd :
     Count(last7, ffd[j]) = IF InLogWindow(j) THEN Count(ffd, ffd[j]) ELSE 0

(* C10 as stated: the window holds exactly the log entries not older than   *)
(* 7 days before the log's last entry, and two runs that differ only in     *)
(* the order file show the same window and the same policy tables.          *)
C10_SameTablesAnyOrders ==
  pc = "done" =>
     /\ WindowIsLogs7Days
     /\ OnlyOrderFileDiffers =>
          /\ last7 = prevRun.last7
          /\ node_counts = prevRun.node_counts
          /\ gr_counts = prevRun.gr_counts

(* C10 amended: the window holds exactly the entries of the loaded log not  *)
(* older than 7 days before its last entry; two runs that differ only in    *)
(* the order file show the same window and tables when the policy log file  *)
(* is present (a synthetic log is laid over the 6 days that end at the      *)
(* order table's last purchase).                                            *)
C10_SameTablesGivenLogFile ==
  pc = "done" =>
     /\ WindowIsLogs7Days
     /\ (OnlyOrderFileDiffers /\ fs["ffd"].exists) =>
          /\ last7 = prevRun.last7
          /\ node_counts = prevRun.node_counts
          /\ gr_counts = prevRun.gr_counts

C10_Witness ==
  /\ pc = "done" /\ OnlyOrderFileDiffers /\ fs["ffd"].exists
  /\ end_date # prevRun.end_date
  /\ last7 # << >> /\ Len(last7) < Len(ffd)
  /\ last7 = prevRun.last7

=============================================================================
